---- MODULE Spec2Model ----
(***************************************************************************)
(* Model of the yagve engine shell: the PerformanceStats rolling average   *)
(* (src/src/util/performance_stats.rs), the Engine event handlers          *)
(* (src/src/engine.rs), the surface configuration of GraphicsContext       *)
(* (src/src/graphics.rs) and GraphicsSettings (src/src/settings.rs).       *)
(*                                                                         *)
(* Instants and Durations are natural numbers of clock ticks.  A tick is   *)
(* the resolution of the clock; Duration / u32 truncates to a whole tick.  *)
(***************************************************************************)
EXTENDS Integers, Sequences, FiniteSets, TLC

VARIABLES
    \* ---- fields of Engine (engine.rs:15-26)
    window,             \* Option<Arc<Window>>
    has_focus,          \* bool
    graphics_context,   \* Option<GraphicsContext>
    graphics_settings,  \* GraphicsSettings record
    next_frame_time,    \* Instant
    performance_stats,  \* PerformanceStats record
    \* ---- the process and its collaborators
    now,                \* last reading of the monotonic clock (Instant::now())
    window_size,        \* window.inner_size(), <<width, height>>
    redraw_requested,   \* a request_redraw() is outstanding
    exiting,            \* event_loop.exit() has been called
    running,            \* the event loop still dispatches events
    panicked,           \* the process aborted on a panic
    \* ---- observations
    instants,           \* the instants a harness passed to add_frame, in order
    script,             \* position in a scripted event sequence, if one is played
    n_presents,         \* number of frame.present() calls so far
    last_present,       \* Option<Instant>: time of the latest present
    contexts_created,   \* number of windows / GraphicsContexts created
    last                \* what the last step (event or call) did

vars == <<window, has_focus, graphics_context, graphics_settings, next_frame_time,
          performance_stats, now, window_size, redraw_requested, exiting, running,
          panicked, instants, script, n_presents, last_present,
          contexts_created, last>>

engine_fields == <<window, has_focus, graphics_context, graphics_settings,
                   next_frame_time, performance_stats>>

\* Option<T>: None is the empty tuple, Some(x) the one-element tuple.
None == <<>>

Some(x) == <<x>>

unwrap(o) == o[1]

(***************************************************************************)
(* Bounds of the model.                                                    *)
(***************************************************************************)
\* SpecStats: number of add_frame calls, largest delta between two instants,
\* and number of leading deltas that vary freely (later ones repeat the last).
MaxFrames == 103
MaxDelta == 2
MaxVaried == 2
\* Spec: latest time an event is delivered, number of presented frames, largest
\* frame time of the FixedInterval mode, longest draw, largest window dimension.
MaxTime == 3
MaxPresents == 2
MaxFrameTime == 2
MaxDrawTime == 1
MaxDim == 2

(***************************************************************************)
(* PerformanceStats (performance_stats.rs)                                 *)
(***************************************************************************)
FPS_SMA_RESOLUTION == 100

\* [Default::default(); 100]: a ring of 100 zero Durations.  Rust index i is
\* index i + 1 here.
ZeroRing == [i \in 1..FPS_SMA_RESOLUTION |-> 0]

InitialFramesZero == 1 - 1

InitialFrames == 1

PerformanceStats_default ==
    [ last_frame       |-> None,
      frame_durations  |-> ZeroRing,
      frames           |-> InitialFrames,
      frame_rate_accum |-> 0 ]

\* slice::rotate_right(1): the last element becomes the first.
rotate_right_1(ring) ==
    [i \in 1..Len(ring) |-> IF i = 1 THEN ring[Len(ring)] ELSE ring[i - 1]]

\* Instant - Instant saturates at the zero Duration.
instant_sub(time, earlier) == IF time >= earlier THEN time - earlier ELSE 0

min_u32(a, b) == IF a <= b THEN a ELSE b

\* Duration -= Duration panics when the result would be negative.
add_frame_panics(ps, time) ==
    /\ ps.last_frame # None
    /\ rotate_right_1(ps.frame_durations)[1] > ps.frame_rate_accum

add_frame_no_evict(ps, time) ==
    IF ps.last_frame = None
    THEN [ps EXCEPT !.last_frame = Some(time)]
    ELSE LET duration == instant_sub(time, unwrap(ps.last_frame))
             rotated  == rotate_right_1(ps.frame_durations)
         IN  [ last_frame       |-> Some(time),
               frame_durations  |-> [rotated EXCEPT ![1] = duration],
               frames           |-> min_u32(ps.frames + 1, FPS_SMA_RESOLUTION),
               frame_rate_accum |-> ps.frame_rate_accum + duration ]

add_frame_no_cap(ps, time) ==
    IF ps.last_frame = None
    THEN [ps EXCEPT !.last_frame = Some(time)]
    ELSE LET duration == instant_sub(time, unwrap(ps.last_frame))
             rotated  == rotate_right_1(ps.frame_durations)
         IN  [ last_frame       |-> Some(time),
               frame_durations  |-> [rotated EXCEPT ![1] = duration],
               frames           |-> ps.frames + 1,
               frame_rate_accum |-> (ps.frame_rate_accum - rotated[1]) + duration ]

add_frame_unrecorded(ps, time) == ps

add_frame(ps, time) ==
    IF ps.last_frame = None
    THEN [ps EXCEPT !.last_frame = Some(time)]
    ELSE LET duration == instant_sub(time, unwrap(ps.last_frame))
             rotated  == rotate_right_1(ps.frame_durations)
         IN  [ last_frame       |-> Some(time),
               frame_durations  |-> [rotated EXCEPT ![1] = duration],
               frames           |-> min_u32(ps.frames + 1, FPS_SMA_RESOLUTION),
               frame_rate_accum |-> (ps.frame_rate_accum - rotated[1]) + duration ]

\* Duration / u32 panics on a zero divisor.
get_frame_time_panics(ps) == ps.frames = 0

get_frame_time(ps) == ps.frame_rate_accum \div ps.frames

(***************************************************************************)
(* GraphicsSettings (settings.rs)                                          *)
(***************************************************************************)
GraphicsSettings_default ==
    [ frametime_or_vsync |-> None, render_without_focus |-> FALSE ]

with_vsync(gs) == [gs EXCEPT !.frametime_or_vsync = None]

\* with_framerate(f64): the frame time is Duration::from_secs_f64(1.0 / framerate),
\* here given directly as the resulting Duration.
with_framerate(gs, frametime) == [gs EXCEPT !.frametime_or_vsync = Some(frametime)]

with_render_without_focus(gs, b) == [gs EXCEPT !.render_without_focus = b]

FrameTimes == 1..MaxFrameTime

\* The settings a caller can build before the event loop runs.
BuildableSettings ==
    { with_render_without_focus(gs, b) :
        gs \in {with_vsync(GraphicsSettings_default)}
               \cup {with_framerate(GraphicsSettings_default, d) : d \in FrameTimes},
        b \in BOOLEAN }

(***************************************************************************)
(* GraphicsContext (graphics.rs)                                           *)
(***************************************************************************)
SHADERS == <<"shader">>

\* Window sizes: each axis is zero (a minimised window) or MaxDim.
Sizes == {0, MaxDim} \X {0, MaxDim}

max_u32(a, b) == IF a >= b THEN a ELSE b

present_mode_swapped(gs) ==
    IF gs.frametime_or_vsync # None THEN "AutoVsync" ELSE "AutoNoVsync"

present_mode(gs) ==
    IF gs.frametime_or_vsync # None THEN "AutoNoVsync" ELSE "AutoVsync"

configure_surface_unclamped(size, gs) ==
    [ width        |-> size[1],
      height       |-> size[2],
      present_mode |-> present_mode(gs) ]

configure_surface(size, gs) ==
    [ width        |-> max_u32(size[1], 1),
      height       |-> max_u32(size[2], 1),
      present_mode |-> present_mode(gs) ]

\* GraphicsContext::new: configure the surface, then load every shader of
\* SHADERS into a pipeline, in order.
GraphicsContext_new(gs, size) ==
    [ surface_config |-> configure_surface(size, gs),
      shaders        |-> SHADERS ]

reconfigure_surface_relative(gc, size, gs) ==
    [gc EXCEPT !.surface_config =
        [ width        |-> gc.surface_config.width + size[1],
          height       |-> gc.surface_config.height + size[2],
          present_mode |-> present_mode(gs) ]]

reconfigure_surface_rebuild(gc, size, gs) ==
    [ surface_config |-> configure_surface(size, gs),
      shaders        |-> gc.shaders \o SHADERS ]

reconfigure_surface(gc, size, gs) ==
    [gc EXCEPT !.surface_config = configure_surface(size, gs)]

\* GraphicsContext::draw presents once per pipeline; get_current_texture()
\* .expect(..) aborts the process at pipeline number fail_at (0: no failure).
gc_draw_presents(gc, fail_at) ==
    IF fail_at = 0 THEN Len(gc.shaders) ELSE fail_at - 1

(***************************************************************************)
(* Engine (engine.rs)                                                      *)
(***************************************************************************)
\* The visibility gate of RedrawRequested (engine.rs:106).
visible_always(focus, gs) == TRUE

visible(focus, gs) == focus \/ gs.render_without_focus

\* The pacer gate of RedrawRequested (engine.rs:110-111).
pacer_allows_always(gs, nft, t) == TRUE

pacer_allows_never(gs, nft, t) == FALSE

pacer_allows(gs, nft, t) == gs.frametime_or_vsync = None \/ nft <= t

\* The pacer update after a draw (engine.rs:117-119); t is Instant::now().
pacer_advance_unconditional(gs, nft, t) ==
    IF gs.frametime_or_vsync # None THEN t + unwrap(gs.frametime_or_vsync) ELSE t

pacer_advance_backdated(gs, nft, t) ==
    IF gs.frametime_or_vsync # None THEN t - unwrap(gs.frametime_or_vsync) ELSE nft

pacer_advance_from_deadline(gs, nft, t) ==
    IF gs.frametime_or_vsync # None THEN nft + unwrap(gs.frametime_or_vsync) ELSE nft

pacer_advance(gs, nft, t) ==
    IF gs.frametime_or_vsync # None THEN t + unwrap(gs.frametime_or_vsync) ELSE nft

\* Engine::new reads the clock for next_frame_time (engine.rs:39).
initial_next_frame_time_late(t, gs) ==
    IF gs.frametime_or_vsync # None THEN t + unwrap(gs.frametime_or_vsync) ELSE t

initial_next_frame_time(t, gs) == t

\* What a step did: the event handled or call made, the number of Engine::draw
\* calls and of presents in it, whether it called request_redraw(), and the
\* value it reported (get_frame_time()).
Did(ev, draws, presents, requested, output) ==
    [ ev |-> ev, draws |-> draws, presents |-> presents,
      requested |-> requested, output |-> output ]

NoEvent == Did("Nothing", 0, 0, FALSE, None)

NoScript == [ pc |-> 0, at |-> 0 ]

Dispatching == running /\ ~panicked

(***************************************************************************)
(* The harness of PerformanceStats: a fresh PerformanceStats fed strictly  *)
(* increasing instants, and queried in between.                            *)
(***************************************************************************)
env_vars == <<now, window_size, redraw_requested, exiting, running>>

obs_vars == <<n_presents, last_present, contexts_created>>

InitStats ==
    /\ window = None
    /\ has_focus = FALSE
    /\ graphics_context = None
    /\ graphics_settings = GraphicsSettings_default
    /\ next_frame_time = 0
    /\ performance_stats = PerformanceStats_default
    /\ now = 0
    /\ window_size = <<1, 1>>
    /\ redraw_requested = FALSE
    /\ exiting = FALSE
    /\ running = TRUE
    /\ panicked = FALSE
    /\ instants = <<>>
    /\ script = NoScript
    /\ n_presents = 0
    /\ last_present = None
    /\ contexts_created = 0
    /\ last = NoEvent

\* The instants a harness may feed next: strictly later than the last one; once
\* MaxVaried deltas have been fed, the spacing stays that of the last delta.
NextInstants ==
    LET n == Len(instants)
    IN  IF n = 0 THEN 0..MaxDelta
        ELSE { instants[n] + d : d \in
                 { e \in 1..MaxDelta :
                     n > MaxVaried + 1 => e = instants[n] - instants[n - 1] } }

AddFrame(time) ==
    /\ ~panicked
    /\ Len(instants) < MaxFrames
    /\ time \in NextInstants
    /\ instants' = Append(instants, time)
    /\ last' = Did("add_frame", 0, 0, FALSE, None)
    /\ IF add_frame_panics(performance_stats, time)
       THEN /\ panicked' = TRUE
            /\ UNCHANGED performance_stats
       ELSE /\ performance_stats' = add_frame(performance_stats, time)
            /\ UNCHANGED panicked
    /\ UNCHANGED <<window, has_focus, graphics_context, graphics_settings,
                   next_frame_time, env_vars, obs_vars, script>>

GetFrameTime ==
    /\ ~panicked
    /\ IF get_frame_time_panics(performance_stats)
       THEN /\ panicked' = TRUE
            /\ last' = Did("get_frame_time", 0, 0, FALSE, None)
       ELSE /\ last' = Did("get_frame_time", 0, 0, FALSE,
                           Some(get_frame_time(performance_stats)))
            /\ UNCHANGED panicked
    /\ UNCHANGED <<engine_fields, env_vars, obs_vars, instants, script>>

NextStats ==
    \/ \E time \in 0..(MaxFrames * MaxDelta + MaxDelta) : AddFrame(time)
    \/ GetFrameTime

SpecStats == InitStats /\ [][NextStats]_vars

(***************************************************************************)
(* The event loop driving Engine (engine.rs:71-154).  An event is handled  *)
(* at the current reading `now` of the monotonic clock.                    *)
(***************************************************************************)
Init ==
    /\ window = None
    /\ has_focus = FALSE
    /\ graphics_context = None
    /\ graphics_settings \in BuildableSettings
    /\ now \in {0, 1}
    /\ next_frame_time = initial_next_frame_time(now, graphics_settings)
    /\ performance_stats = PerformanceStats_default
    /\ window_size \in Sizes
    /\ redraw_requested = FALSE
    /\ exiting = FALSE
    /\ running = TRUE
    /\ panicked = FALSE
    /\ instants = <<>>
    /\ script = NoScript
    /\ n_presents = 0
    /\ last_present = None
    /\ contexts_created = 0
    /\ last = NoEvent

\* The test of resumed for "a window is needed" (engine.rs:74).
window_is_none_always(w) == TRUE

window_is_none(w) == w = None

\* resumed that would create the window and leave the backend unset.
Resumed_window_only(ok) ==
    /\ Dispatching
    /\ last' = Did("Resumed", 0, 0, FALSE, None)
    /\ IF window_is_none(window)
       THEN IF ok
            THEN /\ window' = Some("Window")
                 /\ UNCHANGED <<graphics_context, contexts_created, panicked>>
            ELSE /\ panicked' = TRUE
                 /\ UNCHANGED <<window, graphics_context, contexts_created>>
       ELSE /\ ok
            /\ UNCHANGED <<window, graphics_context, contexts_created, panicked>>
    /\ UNCHANGED <<has_focus, graphics_settings, next_frame_time, performance_stats,
                   env_vars, instants, n_presents, last_present>>

\* ApplicationHandler::resumed (engine.rs:72-88); ok is whether window, adapter,
\* device and shaders could all be created (each failure is an unwrap/expect
\* panic).
Resumed(ok) ==
    /\ Dispatching
    /\ last' = Did("Resumed", 0, 0, FALSE, None)
    /\ IF window_is_none(window)
       THEN IF ok
            THEN /\ window' = Some("Window")
                 /\ graphics_context' =
                        Some(GraphicsContext_new(graphics_settings, window_size))
                 /\ contexts_created' = contexts_created + 1
                 /\ UNCHANGED panicked
            ELSE /\ panicked' = TRUE
                 /\ UNCHANGED <<window, graphics_context, contexts_created>>
       ELSE /\ ok
            /\ UNCHANGED <<window, graphics_context, contexts_created, panicked>>
    /\ UNCHANGED <<has_focus, graphics_settings, next_frame_time, performance_stats,
                   env_vars, instants, n_presents, last_present>>

\* The name of the event WindowEvent::Focused(is_focused).
FocusedEvent(is_focused) ==
    IF is_focused THEN "Focused(true)" ELSE "Focused(false)"

\* self.has_focus = is_focused (engine.rs:101).
set_has_focus_sticky(focus, is_focused) == focus \/ is_focused

set_has_focus(focus, is_focused) == is_focused

\* WindowEvent::Focused(is_focused) (engine.rs:100-103)
Focused(is_focused) ==
    /\ Dispatching
    /\ window # None
    /\ last' = Did(FocusedEvent(is_focused), 0, 0, TRUE, None)
    /\ has_focus' = set_has_focus(has_focus, is_focused)
    /\ redraw_requested' = TRUE
    /\ UNCHANGED <<window, graphics_context, graphics_settings, next_frame_time,
                   performance_stats, now, window_size, exiting, running, panicked,
                   instants, obs_vars>>

\* WindowEvent::CloseRequested (engine.rs:104, 64-68): event_loop.exit().
CloseRequested ==
    /\ Dispatching
    /\ window # None
    /\ last' = Did("CloseRequested", 0, 0, FALSE, None)
    /\ exiting' = TRUE
    /\ UNCHANGED <<engine_fields, now, window_size, redraw_requested, running,
                   panicked, instants, obs_vars>>

\* The event loop stops dispatching once the iteration in which exit() was
\* called is over; events already pending in that iteration are still handled.
LoopExit ==
    /\ Dispatching
    /\ exiting
    /\ running' = FALSE
    /\ last' = Did("LoopExit", 0, 0, FALSE, None)
    /\ UNCHANGED <<engine_fields, now, window_size, redraw_requested, exiting,
                   panicked, instants, obs_vars>>

\* WindowEvent::RedrawRequested, unfocused and render_without_focus unset:
\* break 'block (engine.rs:106-108).
RedrawSkipUnfocused ==
    /\ ~visible(has_focus, graphics_settings)
    /\ last' = Did("RedrawRequested", 0, 0, FALSE, None)
    /\ redraw_requested' = FALSE
    /\ UNCHANGED <<engine_fields, now, panicked, n_presents, last_present>>

\* RedrawRequested, visible but next_frame_time is still ahead (engine.rs:110-122).
RedrawSkipPacer ==
    /\ visible(has_focus, graphics_settings)
    /\ ~pacer_allows(graphics_settings, next_frame_time, now)
    /\ last' = Did("RedrawRequested", 0, 0, TRUE, None)
    /\ redraw_requested' = TRUE
    /\ UNCHANGED <<engine_fields, now, panicked, n_presents, last_present>>

\* RedrawRequested that draws (engine.rs:110-122, 57-62, graphics.rs:146-180):
\* the frame is presented at p, add_frame reads the clock at t2 and the pacer
\* reads it at t3.
RedrawDraw(p, t2, t3) ==
    /\ visible(has_focus, graphics_settings)
    /\ pacer_allows(graphics_settings, next_frame_time, now)
    /\ graphics_context # None
    /\ n_presents < MaxPresents
    /\ now <= p /\ p <= t2 /\ t2 <= t3
    /\ graphics_settings.frametime_or_vsync = None => t3 = t2
    /\ LET k == gc_draw_presents(unwrap(graphics_context), 0)
       IN  /\ n_presents' = n_presents + k
           /\ last_present' = IF k > 0 THEN Some(p) ELSE last_present
           /\ IF add_frame_panics(performance_stats, t2)
              THEN /\ panicked' = TRUE
                   /\ now' = t2
                   /\ last' = Did("RedrawRequested", 1, k, FALSE, None)
                   /\ UNCHANGED <<performance_stats, next_frame_time,
                                  redraw_requested>>
              ELSE /\ performance_stats' = add_frame(performance_stats, t2)
                   /\ next_frame_time' =
                        pacer_advance(graphics_settings, next_frame_time, t3)
                   /\ now' = t3
                   /\ last' = Did("RedrawRequested", 1, k, TRUE, None)
                   /\ redraw_requested' = TRUE
                   /\ UNCHANGED panicked
    /\ UNCHANGED <<window, has_focus, graphics_context, graphics_settings>>

\* RedrawRequested whose failed texture acquisition would be tolerated: the
\* frame is recorded, the pacer advanced and the next redraw requested.
RedrawDrawTolerates(p, fail_at) ==
    /\ visible(has_focus, graphics_settings)
    /\ pacer_allows(graphics_settings, next_frame_time, now)
    /\ graphics_context # None
    /\ n_presents < MaxPresents
    /\ now <= p
    /\ fail_at \in 1..Len(unwrap(graphics_context).shaders)
    /\ LET k == gc_draw_presents(unwrap(graphics_context), fail_at)
       IN  /\ n_presents' = n_presents + k
           /\ last_present' = IF k > 0 THEN Some(p) ELSE last_present
           /\ last' = Did("RedrawRequested", 1, k, TRUE, None)
    /\ performance_stats' = add_frame(performance_stats, p)
    /\ next_frame_time' = pacer_advance(graphics_settings, next_frame_time, p)
    /\ now' = p
    /\ redraw_requested' = TRUE
    /\ UNCHANGED <<window, has_focus, graphics_context, graphics_settings, panicked>>

\* RedrawRequested whose draw aborts the process: the backend is missing
\* (unwrap, engine.rs:58) or get_current_texture fails for pipeline fail_at
\* (expect, graphics.rs:148-151) at time p.
RedrawDrawPanics(p, fail_at) ==
    /\ visible(has_focus, graphics_settings)
    /\ pacer_allows(graphics_settings, next_frame_time, now)
    /\ n_presents < MaxPresents
    /\ now <= p
    /\ IF graphics_context = None
       THEN /\ p = now /\ fail_at = 1
            /\ last' = Did("RedrawRequested", 1, 0, FALSE, None)
            /\ UNCHANGED <<n_presents, last_present>>
       ELSE LET k == gc_draw_presents(unwrap(graphics_context), fail_at)
            IN  /\ fail_at \in 1..Len(unwrap(graphics_context).shaders)
                /\ n_presents' = n_presents + k
                /\ last_present' = IF k > 0 THEN Some(p) ELSE last_present
                /\ last' = Did("RedrawRequested", 1, k, FALSE, None)
    /\ panicked' = TRUE
    /\ now' = p
    /\ UNCHANGED <<engine_fields, redraw_requested>>

\* WindowEvent::RedrawRequested (engine.rs:105-123).
RedrawRequested ==
    /\ Dispatching
    /\ window # None
    /\ \/ RedrawSkipUnfocused
       \/ RedrawSkipPacer
       \/ \E p, t2, t3 \in now..(now + MaxDrawTime) : RedrawDraw(p, t2, t3)
       \/ \E p \in now..(now + MaxDrawTime), fail_at \in 1..Len(SHADERS) :
             RedrawDrawPanics(p, fail_at)
    /\ UNCHANGED <<window_size, exiting, running, instants, contexts_created>>

\* WindowEvent::Resized (engine.rs:124-128): the window now has inner size
\* `size`; the surface is configured again when the backend exists.
Resized(size) ==
    /\ Dispatching
    /\ window # None
    /\ last' = Did("Resized", 0, 0, FALSE, None)
    /\ window_size' = size
    /\ graphics_context' =
         IF graphics_context # None
         THEN Some(reconfigure_surface(unwrap(graphics_context), size,
                                       graphics_settings))
         ELSE graphics_context
    /\ UNCHANGED <<window, has_focus, graphics_settings, next_frame_time,
                   performance_stats, now, redraw_requested, exiting, running,
                   panicked, instants, obs_vars>>

\* WindowEvent::KeyboardInput, KeyF pressed (engine.rs:129-147): report the
\* frame rate from get_frame_time().
KeyboardInputKeyF ==
    /\ Dispatching
    /\ window # None
    /\ IF get_frame_time_panics(performance_stats)
       THEN /\ panicked' = TRUE
            /\ last' = Did("KeyF", 0, 0, FALSE, None)
       ELSE /\ last' = Did("KeyF", 0, 0, FALSE,
                           Some(get_frame_time(performance_stats)))
            /\ UNCHANGED panicked
    /\ UNCHANGED <<engine_fields, env_vars, instants, obs_vars>>

\* Any other key, ModifiersChanged and every other WindowEvent
\* (engine.rs:143, 148-151).
OtherEvent ==
    /\ Dispatching
    /\ window # None
    /\ last' = Did("Other", 0, 0, FALSE, None)
    /\ UNCHANGED <<engine_fields, env_vars, panicked, instants, obs_vars>>

\* The monotonic clock advances while no handler runs.
Tick ==
    /\ Dispatching
    /\ now' = now + 1
    /\ last' = Did("Tick", 0, 0, FALSE, None)
    /\ UNCHANGED <<engine_fields, window_size, redraw_requested, exiting, running,
                   panicked, instants, obs_vars>>

Next ==
    \/ now < MaxTime /\ Tick /\ UNCHANGED script
    \/ \E ok \in BOOLEAN : Resumed(ok) /\ UNCHANGED script
    \/ \E b \in BOOLEAN : Focused(b) /\ UNCHANGED script
    \/ CloseRequested /\ UNCHANGED script
    \/ LoopExit /\ UNCHANGED script
    \/ RedrawRequested /\ UNCHANGED script
    \/ \E size \in Sizes : Resized(size) /\ UNCHANGED script
    \/ KeyboardInputKeyF /\ UNCHANGED script
    \/ OtherEvent /\ UNCHANGED script

Spec == Init /\ [][Next]_vars

(***************************************************************************)
(* The scripted run of spec section 8: FixedInterval(1/60 s),              *)
(* render_without_focus = false, and the events activate, Focused(true),   *)
(* redraw, redraw 5 ms later, redraw 20 ms after that.  A tick is 1/600 s, *)
(* so that all three durations are whole ticks.                            *)
(***************************************************************************)
Scenario == [ ticks_per_second |-> 600, framerate |-> 60,
              gap1_ms |-> 5, gap2_ms |-> 20 ]

ScenarioFrameTime == Scenario.ticks_per_second \div Scenario.framerate

ScenarioGap1 == (Scenario.gap1_ms * Scenario.ticks_per_second) \div 1000

ScenarioGap2 == (Scenario.gap2_ms * Scenario.ticks_per_second) \div 1000

InitScenario ==
    /\ window = None
    /\ has_focus = FALSE
    /\ graphics_context = None
    /\ graphics_settings =
         with_render_without_focus(
            with_framerate(GraphicsSettings_default, ScenarioFrameTime), FALSE)
    /\ now \in {0, 1}
    /\ next_frame_time = initial_next_frame_time(now, graphics_settings)
    /\ performance_stats = PerformanceStats_default
    /\ window_size \in Sizes
    /\ redraw_requested = FALSE
    /\ exiting = FALSE
    /\ running = TRUE
    /\ panicked = FALSE
    /\ instants = <<>>
    /\ script = [ pc |-> 1, at |-> 0 ]
    /\ n_presents = 0
    /\ last_present = None
    /\ contexts_created = 0
    /\ last = NoEvent

\* script.pc is the number of the next scripted event; script.at the time the
\* previous scripted redraw was handled.
NextScenario ==
    \/ /\ \/ script.pc <= 3 /\ now < MaxTime
          \/ script.pc = 4 /\ now < script.at + ScenarioGap1
          \/ script.pc = 5 /\ now < script.at + ScenarioGap2
       /\ Tick
       /\ UNCHANGED script
    \/ /\ script.pc = 1
       /\ Resumed(TRUE)
       /\ script' = [script EXCEPT !.pc = 2]
    \* the window system may ask for a redraw of the new window before it
    \* gives it the focus
    \/ /\ script.pc = 2
       /\ RedrawRequested
       /\ UNCHANGED script
    \/ /\ script.pc = 2
       /\ Focused(TRUE)
       /\ script' = [script EXCEPT !.pc = 3]
    \/ /\ script.pc = 3
       /\ RedrawRequested
       /\ script' = [ pc |-> 4, at |-> now ]
    \/ /\ script.pc = 4
       /\ now = script.at + ScenarioGap1
       /\ RedrawRequested
       /\ script' = [ pc |-> 5, at |-> now ]
    \/ /\ script.pc = 5
       /\ now = script.at + ScenarioGap2
       /\ RedrawRequested
       /\ script' = [ pc |-> 6, at |-> now ]

SpecScenario == InitScenario /\ [][NextScenario]_vars

(***************************************************************************)
(* The event loop under fair scheduling: the clock keeps advancing (up to  *)
(* MaxTime, and beyond it as far as next_frame_time), and the windowing    *)
(* system delivers a RedrawRequested for every request_redraw().  Resized, *)
(* keyboard and other events are left out: they change neither the focus   *)
(* flag, the pacer nor the pending redraw request.                         *)
(***************************************************************************)
TickFair ==
    /\ now < MaxTime \/ now < next_frame_time
    /\ Tick
    /\ UNCHANGED script

\* The RedrawRequested that request_redraw() asked for.
RedrawDelivered ==
    /\ redraw_requested
    /\ RedrawRequested
    /\ UNCHANGED script

NextFair ==
    \/ TickFair
    \/ \E ok \in BOOLEAN : Resumed(ok) /\ UNCHANGED script
    \/ \E b \in BOOLEAN : Focused(b) /\ UNCHANGED script
    \/ CloseRequested /\ UNCHANGED script
    \/ LoopExit /\ UNCHANGED script
    \/ RedrawRequested /\ UNCHANGED script

\* The engine is constructed at time 0 for a window of MaxDim x MaxDim, with
\* Vsync or with the longest frame time.
InitFair ==
    /\ Init
    /\ now = 0
    /\ window_size = <<MaxDim, MaxDim>>
    /\ graphics_settings.frametime_or_vsync \in {None, Some(MaxFrameTime)}

SpecFair ==
    /\ InitFair
    /\ [][NextFair]_vars
    /\ WF_vars(TickFair)
    /\ WF_vars(RedrawDelivered)

(***************************************************************************)
(* Properties                                                              *)
(***************************************************************************)
RECURSIVE SumTo(_, _)
SumTo(ring, n) == IF n = 0 THEN 0 ELSE ring[n] + SumTo(ring, n - 1)

\* Number of instants fed so far, and the number of deltas a window of
\* FPS_SMA_RESOLUTION holds of them.
N == Len(instants)

Window == IF N - 1 <= FPS_SMA_RESOLUTION THEN N - 1 ELSE FPS_SMA_RESOLUTION

\* Sum of the last Window consecutive deltas of the instants fed.
SumOfLastDeltas == instants[N] - instants[N - Window]

EvenlySpaced == \A i \in 2..N : instants[i] - instants[i - 1] = instants[2] - instants[1]

FixedInterval == graphics_settings.frametime_or_vsync # None

RedrawStep == last'.ev = "RedrawRequested"

\* C1 (as claimed): after N >= 2 strictly increasing instants, get_frame_time()
\* is the mean of the last min(N-1, 100) deltas: their sum divided by
\* min(N-1, 100) (to the resolution of a Duration).
C1_AverageIsMeanOfLastDeltas ==
    (N >= 2 /\ ~panicked) =>
        get_frame_time(performance_stats) = SumOfLastDeltas \div Window

\* C2 (as claimed): after N >= 1 add_frame calls the divisor `frames` equals
\* min(N-1, 100).
C2_FramesIsSampleCount ==
    (N >= 1 /\ ~panicked) => performance_stats.frames = Window

\* C6: frame_rate_accum always equals the sum of the entries of the
\* frame_durations ring, and add_frame never fails on the subtraction.
C6_AccumIsSumOfRing ==
    /\ ~panicked
    /\ performance_stats.frame_rate_accum =
         SumTo(performance_stats.frame_durations, FPS_SMA_RESOLUTION)

\* C6 witness: the ring is full and the oldest delta, different from the newest,
\* has been evicted.
C6_Witness ==
    /\ N >= FPS_SMA_RESOLUTION + 2
    /\ instants[2] - instants[1] # performance_stats.frame_durations[1]
    /\ performance_stats.frame_rate_accum > 0

C8_SteadyStateAverageIsSpacing ==
    (N >= FPS_SMA_RESOLUTION + 1 /\ EvenlySpaced /\ ~panicked) =>
        get_frame_time(performance_stats) = instants[2] - instants[1]

\* C8 witness: 101 instants one tick apart, and the average read is one tick.
C8_Witness ==
    /\ N = FPS_SMA_RESOLUTION + 1
    /\ EvenlySpaced
    /\ instants[2] - instants[1] = 1
    /\ last.ev = "get_frame_time"
    /\ last.output = Some(1)

\* C3: in FixedInterval(d) mode a RedrawRequested handled before
\* next_frame_time presents nothing; one handled at or after next_frame_time,
\* with visibility permitted, calls draw and presents (unless texture
\* acquisition aborts the process); and two consecutive presents are at least d
\* apart.
C3_FixedIntervalPacing ==
    [][ FixedInterval =>
          /\ (RedrawStep /\ now < next_frame_time) =>
                /\ last'.draws = 0
                /\ n_presents' = n_presents
          /\ (RedrawStep /\ now >= next_frame_time
                /\ (has_focus \/ graphics_settings.render_without_focus)) =>
                /\ last'.draws = 1
                /\ ~panicked' => n_presents' = n_presents + Len(SHADERS)
          /\ (n_presents' > n_presents /\ last_present # None) =>
                unwrap(last_present') >=
                    unwrap(last_present) + unwrap(graphics_settings.frametime_or_vsync)
      ]_vars

\* C3 witness: FixedInterval mode, a second frame has just been presented, a
\* whole frame time or more after construction.
C3_Witness ==
    /\ FixedInterval
    /\ n_presents = 2
    /\ last.ev = "RedrawRequested"
    /\ last.presents = 1
    /\ unwrap(last_present) >= unwrap(graphics_settings.frametime_or_vsync)

\* C4 (as claimed): with render_without_focus = false, a RedrawRequested while
\* the focus flag is false draws nothing, and one while the focus flag is true
\* (after Focused(true)) makes exactly one draw call.
C4_FocusedRedrawAlwaysDraws ==
    (~graphics_settings.render_without_focus /\ last.ev = "RedrawRequested") =>
        /\ ~has_focus => (last.draws = 0 /\ last.presents = 0)
        /\ has_focus => last.draws = 1

\* C4 (amended): with render_without_focus = false, a RedrawRequested while the
\* focus flag is false presents nothing and changes neither next_frame_time nor
\* the performance statistics; while the focus flag is true it makes exactly
\* one draw call if the pacer permits (Vsync, or next_frame_time <= now) and
\* none otherwise.
C4_FocusGate ==
    [][ (~graphics_settings.render_without_focus /\ RedrawStep) =>
          /\ ~has_focus =>
                /\ last'.draws = 0
                /\ n_presents' = n_presents
                /\ next_frame_time' = next_frame_time
                /\ performance_stats' = performance_stats
          /\ has_focus =>
                last'.draws =
                    IF ~FixedInterval \/ next_frame_time <= now THEN 1 ELSE 0
      ]_vars

\* C4 witness: render_without_focus = false, the window has the focus, and a
\* RedrawRequested was skipped by the pacer after an earlier frame.
C4_Witness ==
    /\ ~graphics_settings.render_without_focus
    /\ has_focus
    /\ last.ev = "RedrawRequested"
    /\ last.draws = 0
    /\ n_presents = 1

\* C5 (as claimed): CloseRequested terminates the engine (the loop is told to
\* exit) from every state, and no event handled after that changes the window,
\* the backend, the focus flag, next_frame_time or the statistics, or presents.
C5_NothingChangesAfterClose ==
    [][ /\ last'.ev = "CloseRequested" => exiting'
        /\ exiting =>
              /\ window' = window
              /\ graphics_context' = graphics_context
              /\ has_focus' = has_focus
              /\ next_frame_time' = next_frame_time
              /\ performance_stats' = performance_stats
              /\ n_presents' = n_presents
      ]_vars

\* C9: in the scripted run the first redraw after Focused(true) draws, however
\* long after construction it is handled (next_frame_time is not ahead of the
\* clock before the first draw); the redraw 5 ms later is skipped; the redraw
\* 20 ms after that draws; so exactly 2 frames are drawn.
C9_ScenarioDrawsTwice ==
    [][ /\ (n_presents = 0 /\ last.draws = 0) => next_frame_time <= now
        /\ (script.pc = 3 /\ script'.pc = 4) => last'.draws = 1
        /\ (script.pc = 4 /\ script'.pc = 5) => last'.draws = 0
        /\ (script.pc = 5 /\ script'.pc = 6) => last'.draws = 1
        /\ (script'.pc = 6 /\ ~panicked') => n_presents' = 2
      ]_vars

\* C9 witness: the script has been played to its end and two frames were
\* presented.
C9_Witness ==
    /\ script.pc = 6
    /\ ~panicked
    /\ n_presents = 2
    /\ last.draws = 1

\* C10: in Vsync mode every RedrawRequested with visibility permitted calls
\* draw, however little time has passed since the previous draw, and
\* next_frame_time never changes.
C10_VsyncNeverBlocks ==
    [][ ~FixedInterval =>
          /\ next_frame_time' = next_frame_time
          /\ (RedrawStep /\ (has_focus \/ graphics_settings.render_without_focus)) =>
                /\ last'.draws = 1
                /\ ~panicked' => n_presents' = n_presents + Len(SHADERS)
      ]_vars

\* C10 witness: Vsync mode, two frames drawn with no time between them.
C10_Witness ==
    /\ ~FixedInterval
    /\ n_presents = 2
    /\ last.ev = "RedrawRequested"
    /\ last.draws = 1
    /\ performance_stats.frames = 2
    /\ performance_stats.frame_durations[1] = 0

\* C11: a resumed signal handled while the window and the backend exist changes
\* no field of the engine and creates no second GraphicsContext; over a whole
\* run the window and the backend are created at most once.
C11_ResumedIsIdempotent ==
    [][ /\ (last'.ev = "Resumed" /\ window # None /\ graphics_context # None)
            => UNCHANGED <<engine_fields, contexts_created>>
        /\ contexts_created' <= 1 ]_vars

\* A resumed signal handled after a frame was presented: the second activation.
C11_Witness ==
    /\ last.ev = "Resumed"
    /\ n_presents > 0
    /\ contexts_created = 1
    /\ window # None /\ graphics_context # None

\* C12: next_frame_time never moves backwards: no step of the engine, whatever
\* the event, leaves it earlier than it was (the clock readings of the model
\* are non-decreasing).
C12_NextFrameTimeIsMonotonic ==
    [][ next_frame_time' >= next_frame_time ]_vars

\* FixedInterval mode, the second frame drawn: the pacer was advanced twice.
C12_Witness ==
    /\ FixedInterval
    /\ last.ev = "RedrawRequested" /\ last.draws = 1 /\ ~panicked
    /\ n_presents = 2
    /\ next_frame_time = now + unwrap(graphics_settings.frametime_or_vsync)

\* ps2 is ps with exactly one more frame timestamp, read in lo..hi: the first
\* timestamp only sets last_frame; a later one shifts the ring by one place and
\* stores one new duration.
RecordsOneFrame(ps, ps2, lo, hi) ==
    /\ ps2.last_frame # None
    /\ unwrap(ps2.last_frame) \in lo..hi
    /\ IF ps.last_frame = None
       THEN /\ ps2.frame_durations = ps.frame_durations
            /\ ps2.frames = ps.frames
            /\ ps2.frame_rate_accum = ps.frame_rate_accum
       ELSE /\ ps2.frame_durations[1] =
                    unwrap(ps2.last_frame) - unwrap(ps.last_frame)
            /\ \A i \in 1..(FPS_SMA_RESOLUTION - 1) :
                    ps2.frame_durations[i + 1] = ps.frame_durations[i]

\* C13: next_frame_time and the performance statistics change only in a
\* RedrawRequested that draws: a redraw skipped for lack of focus, a redraw
\* skipped because next_frame_time is still ahead, and every step that is not a
\* redraw leave both unchanged; a redraw that draws records exactly one frame
\* timestamp.
C13_OnlyDrawingMutatesPacerAndStats ==
    [][ /\ ~RedrawStep => UNCHANGED <<next_frame_time, performance_stats>>
        /\ (RedrawStep /\ ~(has_focus \/ graphics_settings.render_without_focus))
              => UNCHANGED <<next_frame_time, performance_stats>>
        /\ (RedrawStep /\ FixedInterval /\ now < next_frame_time)
              => UNCHANGED <<next_frame_time, performance_stats>>
        /\ (RedrawStep /\ last'.draws = 0)
              => UNCHANGED <<next_frame_time, performance_stats>>
        /\ (RedrawStep /\ last'.draws = 1 /\ ~panicked')
              => RecordsOneFrame(performance_stats, performance_stats', now, now')
      ]_vars

\* A second frame was drawn and its duration recorded, and the redraw after it
\* was skipped by the pacer.
C13_Witness ==
    /\ FixedInterval
    /\ last.ev = "RedrawRequested" /\ last.draws = 0 /\ last.requested
    /\ n_presents = 2
    /\ performance_stats.frames = 2
    /\ performance_stats.frame_durations[1] > 0
    /\ now < next_frame_time

\* C14: whenever the backend exists, after creation and after every resize,
\* the configured surface width and height are each at least 1 and equal the
\* window's size with each axis raised to 1 when the window reports 0.
C14_SurfaceIsNeverEmpty ==
    graphics_context # None =>
        LET config == unwrap(graphics_context).surface_config
        IN  /\ config.width >= 1
            /\ config.height >= 1
            /\ config.width = (IF window_size[1] = 0 THEN 1 ELSE window_size[1])
            /\ config.height = (IF window_size[2] = 0 THEN 1 ELSE window_size[2])

\* The window was resized to 0x0 and the surface reconfigured to 1x1.
C14_Witness ==
    /\ graphics_context # None
    /\ last.ev = "Resized"
    /\ window_size = <<0, 0>>
    /\ unwrap(graphics_context).surface_config.width = 1
    /\ unwrap(graphics_context).surface_config.height = 1

\* C15: whenever the backend exists, the present mode of the surface is
\* AutoNoVsync when frametime_or_vsync is Some (FixedInterval) and AutoVsync
\* when it is None (Vsync), after creation and after any number of resizes.
C15_PresentModeFollowsPacing ==
    graphics_context # None =>
        unwrap(graphics_context).surface_config.present_mode =
            (IF FixedInterval THEN "AutoNoVsync" ELSE "AutoVsync")

\* Vsync mode, a frame presented and the window resized after it: the surface
\* still blocks on presentation.
C15_Witness ==
    /\ graphics_context # None
    /\ ~FixedInterval
    /\ last.ev = "Resized"
    /\ n_presents > 0
    /\ unwrap(graphics_context).surface_config.present_mode = "AutoVsync"

\* C16: reconfiguring the surface a second time with the same window size and
\* settings gives the configuration the first call gave: for every size, the
\* second of two successive reconfigure_surface calls changes nothing, and a
\* Resized event that reports the size the window already has leaves the
\* backend as it is.
C16_ReconfigureIsIdempotent ==
    graphics_context # None =>
        LET gc == unwrap(graphics_context)
        IN  /\ reconfigure_surface(gc, window_size, graphics_settings) = gc
            /\ \A size \in Sizes :
                 LET once == reconfigure_surface(gc, size, graphics_settings)
                 IN  reconfigure_surface(once, size, graphics_settings) = once

\* The surface was reconfigured for a window of MaxDim x 0.
C16_Witness ==
    /\ graphics_context # None
    /\ last.ev = "Resized"
    /\ window_size = <<MaxDim, 0>>
    /\ unwrap(graphics_context).surface_config.width = MaxDim
    /\ unwrap(graphics_context).surface_config.height = 1

\* C17: every RedrawRequested the engine has handled to its end (drawn, skipped
\* for lack of focus, or skipped by the pacer) called request_redraw(), so that
\* a further RedrawRequested is pending.
C17_RedrawAlwaysRequestsRedraw ==
    (last.ev = "RedrawRequested" /\ ~panicked) =>
        (last.requested /\ redraw_requested)

\* C18: in FixedInterval(d) mode a RedrawRequested makes at most one draw call;
\* one that draws, however long after next_frame_time it is handled, sets
\* next_frame_time to the clock reading taken after the draw plus d (later than
\* the old next_frame_time + d when the redraw was late); and a redraw handled
\* before the new next_frame_time is skipped.
C18_NoBurstCatchUp ==
    [][ (FixedInterval /\ RedrawStep) =>
          LET d == unwrap(graphics_settings.frametime_or_vsync)
          IN  /\ last'.draws <= 1
              /\ (last'.draws = 1 /\ ~panicked') =>
                    /\ next_frame_time' = now' + d
                    /\ now > next_frame_time => next_frame_time' > next_frame_time + d
              /\ now < next_frame_time =>
                    /\ last'.draws = 0
                    /\ UNCHANGED <<n_presents, next_frame_time>>
      ]_vars

\* Frames are one tick apart, and the first frame was drawn MaxTime ticks or
\* more after construction, two intervals or more past next_frame_time.
C18_Witness ==
    /\ FixedInterval
    /\ unwrap(graphics_settings.frametime_or_vsync) = 1
    /\ last.ev = "RedrawRequested" /\ last.draws = 1 /\ ~panicked
    /\ n_presents = 1
    /\ now >= MaxTime
    /\ next_frame_time = now + 1

\* C19: a Resized event handled while the backend exists replaces the surface
\* configuration by the one for the window's current size and the pacing
\* settings, and nothing else: no GraphicsContext is created, the pipeline list
\* is the same, and window, focus flag, settings, next_frame_time and
\* performance statistics are unchanged; handled while no backend exists it
\* changes no field of the engine.
C19_ResizedOnlyReconfigures ==
    [][ last'.ev = "Resized" =>
          /\ UNCHANGED <<window, has_focus, graphics_settings, next_frame_time,
                         performance_stats, contexts_created, n_presents>>
          /\ graphics_context = None => graphics_context' = None
          /\ graphics_context # None =>
                /\ graphics_context' # None
                /\ unwrap(graphics_context').shaders = unwrap(graphics_context).shaders
                /\ unwrap(graphics_context').surface_config =
                     [ width  |-> IF window_size'[1] = 0 THEN 1 ELSE window_size'[1],
                       height |-> IF window_size'[2] = 0 THEN 1 ELSE window_size'[2],
                       present_mode |->
                          IF FixedInterval THEN "AutoNoVsync" ELSE "AutoVsync" ]
      ]_vars

\* A focused engine that has drawn two frames handles a resize to 0 x MaxDim.
C19_Witness ==
    /\ last.ev = "Resized"
    /\ graphics_context # None
    /\ has_focus
    /\ n_presents = 2
    /\ performance_stats.frames = 2
    /\ window_size = <<0, MaxDim>>
    /\ unwrap(graphics_context).surface_config.height = MaxDim

\* C20: the focus flag is false until a Focused event is handled; a Focused(b)
\* event sets it to b, requests a redraw and changes nothing else; and no other
\* step changes it, so that in every state it is the argument of the most
\* recent Focused event.
C20_FocusFlagFollowsFocused ==
    /\ ~has_focus
    /\ [][ /\ last'.ev = "Focused(true)" => has_focus'
           /\ last'.ev = "Focused(false)" => ~has_focus'
           /\ last'.ev \in {"Focused(true)", "Focused(false)"} =>
                /\ last'.requested
                /\ redraw_requested'
                /\ UNCHANGED <<window, graphics_context, graphics_settings,
                               next_frame_time, performance_stats, now,
                               window_size, exiting, running, panicked,
                               n_presents, last_present, contexts_created>>
           /\ last'.ev \notin {"Focused(true)", "Focused(false)"} =>
                has_focus' = has_focus
         ]_vars

\* render_without_focus unset and a frame presented, so Focused(true) was
\* handled before; Focused(false) has now cleared the flag.
C20_Witness ==
    /\ last.ev = "Focused(false)"
    /\ ~has_focus
    /\ redraw_requested
    /\ ~graphics_settings.render_without_focus
    /\ n_presents > 0

\* C21: a RedrawRequested whose draw fails to acquire the surface texture for
\* some pipeline ends the process in that step: no frame timestamp is
\* recorded, next_frame_time is not advanced, request_redraw() is not called,
\* and no step follows.  (Engine::draw itself never returns Err.)
C21_TextureFailureIsFatal ==
    [][ /\ (RedrawStep /\ last'.draws = 1 /\ last'.presents < Len(SHADERS)) =>
              /\ panicked'
              /\ ~last'.requested
              /\ UNCHANGED <<window, has_focus, graphics_context, graphics_settings,
                             next_frame_time, performance_stats, redraw_requested>>
        /\ ~panicked
      ]_vars

\* FixedInterval mode: one frame was drawn and recorded, and the draw of the
\* next one failed to acquire its texture; the pacer still shows the passed
\* deadline.
C21_Witness ==
    /\ panicked
    /\ FixedInterval
    /\ last.ev = "RedrawRequested" /\ last.draws = 1 /\ last.presents = 0
    /\ ~last.requested
    /\ n_presents = 1
    /\ performance_stats.last_frame # None
    /\ performance_stats.frames = 1
    /\ next_frame_time <= now

FocusedAndRunning == window # None /\ Dispatching /\ has_focus

\* The step just taken was a RedrawRequested that drew and presented a frame.
JustDrew ==
    last.ev = "RedrawRequested" /\ last.draws = 1 /\ last.presents = Len(SHADERS)

\* C23: while the engine is Ready, running and focused, a redraw request is
\* outstanding; and, when requested redraws are delivered and the clock
\* advances, a focused engine (with fewer than MaxPresents frames presented)
\* goes on to draw and present a frame, unless it loses focus or stops first;
\* this includes the engine that has just received Focused(true) after an
\* unfocused period.
C23_FocusedEngineKeepsDrawing ==
    /\ [](FocusedAndRunning => redraw_requested)
    /\ (FocusedAndRunning /\ n_presents < MaxPresents)
          ~> (JustDrew \/ ~has_focus \/ ~Dispatching)

\* FixedInterval mode without render_without_focus: the focused engine has
\* presented its second frame, after the clock passed MaxTime.
C23_Witness ==
    /\ FocusedAndRunning
    /\ FixedInterval
    /\ ~graphics_settings.render_without_focus
    /\ redraw_requested
    /\ last.ev = "RedrawRequested" /\ last.draws = 1
    /\ n_presents = 2
    /\ now > MaxTime

====
